---- MODULE Spec2Model ----
(***************************************************************************)
(* A model of hashcoin.py: the memoized salt enumerator (reuse /           *)
(* iter_bytes), the digest space (max_digest, percentile_digest,           *)
(* percentile) and the search policies of Hashcoin (in_percentile, new,    *)
(* refine, best).                                                          *)
(*                                                                         *)
(* Bytes objects are sequences over 0..255.  A percentile is a rational    *)
(* <<num, den>> with den > 0: every Python float is a dyadic rational and  *)
(* max_digest_value + 1 is a power of two, so the product                  *)
(* percentile * (max_digest_value + 1) of line 124 is exact, and int()     *)
(* truncates it toward zero.  A raised exception is the field err of the   *)
(* result.                                                                 *)
(***************************************************************************)
EXTENDS Integers, Sequences, FiniteSets, TLC

VARIABLES history, gen, cons, hashfn, call

vars == <<history, gen, cons, hashfn, call>>

(***************************************************************************)
(* Bounds of the model.                                                    *)
(***************************************************************************)
\* hash().digest_size of the configured hash, in bytes
DigestSize == 1
\* salts the underlying generator may produce in Spec
MaxIndex == 4
\* salts the underlying generator may produce in SpecEnum
EnumLimit == 258
\* generator objects alive at once in Spec
MaxConsumers == 2
\* widths, in bytes, of the digests compared in SpecCompare
CompareWidth == 2

(***************************************************************************)
(* Integers and bytes.                                                     *)
(***************************************************************************)
RECURSIVE Pow(_, _)
Pow(b, e) == IF e = 0 THEN 1 ELSE b * Pow(b, e - 1)

NoError == "none"
OverflowError == "OverflowError"

\* int.to_bytes(length, 'big'): OverflowError for a negative value and for
\* one that does not fit in length bytes
to_bytes(v, num_bytes) ==
    IF v < 0 \/ v >= Pow(256, num_bytes)
    THEN [err |-> OverflowError, val |-> <<>>]
    ELSE [err |-> NoError,
          val |-> [k \in 1..num_bytes |-> (v \div Pow(256, num_bytes - k)) % 256]]

\* int.from_bytes(b, byteorder='big')
RECURSIVE intify(_)
intify(b) ==
    IF b = <<>> THEN 0
    ELSE 256 * intify(SubSeq(b, 1, Len(b) - 1)) + b[Len(b)]

\* Python's int() of a real: truncation toward zero of num / den, den > 0
int_trunc(num, den) ==
    IF num >= 0 THEN num \div den ELSE -((-num) \div den)

\* a comparison that looks at the last byte first
RECURSIVE bytes_lt_from_end(_, _)
bytes_lt_from_end(a, b) ==
    IF b = <<>> THEN FALSE
    ELSE IF a = <<>> THEN TRUE
    ELSE IF a[Len(a)] # b[Len(b)] THEN a[Len(a)] < b[Len(b)]
    ELSE bytes_lt_from_end(SubSeq(a, 1, Len(a) - 1), SubSeq(b, 1, Len(b) - 1))

\* the comparison of bytes objects: lexicographic, a proper prefix first
RECURSIVE bytes_lt(_, _)
bytes_lt(a, b) ==
    IF b = <<>> THEN FALSE
    ELSE IF a = <<>> THEN TRUE
    ELSE IF a[1] # b[1] THEN a[1] < b[1]
    ELSE bytes_lt(Tail(a), Tail(b))

bytes_le(a, b) == a = b \/ bytes_lt(a, b)

(***************************************************************************)
(* The digest space.                                                       *)
(***************************************************************************)
\* Hashcoin.max_digest
max_digest == [k \in 1..DigestSize |-> 255]

\* percentile_digest rounding the product up instead of truncating it
percentile_digest_round_up(p) ==
    LET max_digest_value == intify(max_digest)
        product == p[1] * (max_digest_value + 1)
        percentile_digest_value ==
            IF product >= 0 THEN (product + p[2] - 1) \div p[2]
            ELSE -((-product) \div p[2])
    IN to_bytes(percentile_digest_value, DigestSize)

\* Hashcoin.percentile_digest
percentile_digest(p) ==
    LET max_digest_value == intify(max_digest)
        percentile_digest_value == int_trunc(p[1] * (max_digest_value + 1), p[2])
    IN to_bytes(percentile_digest_value, DigestSize)

\* percentile(value, max_value): the quotient value / (max_value + 1), kept
\* exact.  Python rounds it to a float of 53 significant bits, which changes
\* nothing for a value below 2^53 and never reverses the order of two
\* quotients
percentile(value, max_value) == <<value, max_value + 1>>

\* comparisons of rationals with positive denominators
RatLe(a, b) == a[1] * b[2] <= b[1] * a[2]
RatLt(a, b) == a[1] * b[2] < b[1] * a[2]

(***************************************************************************)
(* The hash.  A hash object is the bytes fed to it so far; its digest is   *)
(* a fixed function of them.  The configured hash is one of HashTables:    *)
(* any assignment of sample digests to the classes of the content.         *)
(***************************************************************************)
\* the size of the digest space
Modulus == intify(max_digest) + 1

\* the digest space quartered: the ceiling of the percentile 1/4
Quarter == (intify(max_digest) + 1) \div 4

DigestSamples ==
    {to_bytes(0, DigestSize).val, to_bytes(Quarter, DigestSize).val,
     to_bytes(Quarter + 1, DigestSize).val, max_digest}

HashClasses == 0..2

HashTables == [HashClasses -> DigestSamples]

RECURSIVE SumBytes(_)
SumBytes(b) == IF b = <<>> THEN 0 ELSE b[1] + SumBytes(Tail(b))

HashClass(content) == (SumBytes(content) + Len(content)) % Cardinality(HashClasses)

\* cls.hash(data)
HashNew(data) == data

\* h.copy()
HashCopy(h) == h

\* h.update(b)
HashUpdate(h, b) == h \o b

\* h.digest()
HashDigest(h) == hashfn[HashClass(h)]

(***************************************************************************)
(* iter_bytes: the underlying generator, suspended with the loop variables *)
(* of the value it yields next.                                            *)
(***************************************************************************)
GenInit == [num_bytes |-> 0, i |-> 0]

\* iter_bytes with `range(256 ** num_bytes - 1)` for a length above 0: the
\* last value of every length is left out
iter_bytes_short_range(g) ==
    [value |-> to_bytes(g.i, g.num_bytes).val,
     gen   |-> IF g.i + 2 < Pow(256, g.num_bytes)
               THEN [g EXCEPT !.i = g.i + 1]
               ELSE [num_bytes |-> g.num_bytes + 1, i |-> 0]]

\* one next() of the underlying generator: the value yielded and the
\* generator afterwards
iter_bytes(g) ==
    [value |-> to_bytes(g.i, g.num_bytes).val,
     gen   |-> IF g.i + 1 < Pow(256, g.num_bytes)
               THEN [g EXCEPT !.i = g.i + 1]
               ELSE [num_bytes |-> g.num_bytes + 1, i |-> 0]]

(***************************************************************************)
(* reuse: every call of the decorated iter_bytes gets the same history     *)
(* list and the same underlying generator from the cached resume().  A     *)
(* reuser is first inside `yield from history`, a list iterator at index   *)
(* idx that sees the appends of others and, once exhausted, stays          *)
(* exhausted; then inside `for x in gen`.                                  *)
(***************************************************************************)
\* a reuser that leaves out `yield from history`
reuser_skips_replay(ph, idx, hist, g) ==
    LET x == iter_bytes(g)
    IN [salt |-> x.value, phase |-> "gen", idx |-> idx,
        history |-> Append(hist, x.value), gen |-> x.gen, pulled |-> TRUE]

\* a reuser that goes back to the history list whenever the list is longer
\* than what it has replayed
reuser_replays_again(ph, idx, hist, g) ==
    IF idx < Len(hist)
    THEN [salt |-> hist[idx + 1], phase |-> "history", idx |-> idx + 1,
          history |-> hist, gen |-> g, pulled |-> FALSE]
    ELSE LET x == iter_bytes(g)
         IN [salt |-> x.value, phase |-> "gen", idx |-> idx,
             history |-> Append(hist, x.value), gen |-> x.gen, pulled |-> TRUE]

\* a reuser that yields what it pulls without recording it
reuser_forgets(ph, idx, hist, g) ==
    IF ph # "gen" /\ idx < Len(hist)
    THEN [salt |-> hist[idx + 1], phase |-> "history", idx |-> idx + 1,
          history |-> hist, gen |-> g, pulled |-> FALSE]
    ELSE LET x == iter_bytes(g)
         IN [salt |-> x.value, phase |-> "gen", idx |-> idx,
             history |-> hist, gen |-> x.gen, pulled |-> TRUE]

\* one next() of a reuser in phase ph at list index idx
reuser(ph, idx, hist, g) ==
    IF ph # "gen" /\ idx < Len(hist)
    THEN [salt |-> hist[idx + 1], phase |-> "history", idx |-> idx + 1,
          history |-> hist, gen |-> g, pulled |-> FALSE]
    ELSE LET x == iter_bytes(g)
         IN [salt |-> x.value, phase |-> "gen", idx |-> idx,
             history |-> Append(hist, x.value), gen |-> x.gen, pulled |-> TRUE]

\* values the underlying generator has yielded so far
RECURSIVE Produced(_)
Produced(g) ==
    IF g.num_bytes = 0 THEN g.i
    ELSE Pow(256, g.num_bytes - 1) + Produced([g EXCEPT !.num_bytes = @ - 1, !.i = 0])
         + g.i

\* whether a next() of the reuser stays within lim values of the generator
CanDraw(ph, idx, hist, g, lim) ==
    (ph # "gen" /\ idx < Len(hist)) \/ Produced(g) < lim

(***************************************************************************)
(* State.  history and gen are the list and the generator the cached       *)
(* resume() hands to every reuser.  cons holds the live generator          *)
(* objects: their kind and arguments, where they are suspended, their      *)
(* locals, and, as bookkeeping, the items they yielded (out), the salts    *)
(* they drew (trials), the digests their loop tested (tested), the length  *)
(* of history at their first next() (k0) and whether another enumeration   *)
(* advanced since (disturbed).  hashfn is the configured hash.  call is    *)
(* the last completed call of a plain function with its result.            *)
(***************************************************************************)
Consumer(kind, p, data) ==
    [kind |-> kind, percentile |-> p, data |-> data,
     phase |-> "created", idx |-> 0,
     data_hash |-> <<>>, limit_digest |-> <<>>, err |-> NoError,
     out |-> <<>>, trials |-> <<>>, tested |-> <<>>, k0 |-> 0,
     disturbed |-> FALSE]

NoCall ==
    [op |-> "none", percentile |-> <<0, 1>>, data |-> <<>>, n |-> 0,
     err |-> NoError, digest |-> <<>>, salt |-> <<>>, trials |-> <<>>,
     tested |-> <<>>, other |-> <<>>, accepts |-> <<>>]

\* the other live generators, once started, have seen another one advance
Disturb(c) == IF c.phase = "created" THEN c ELSE [c EXCEPT !.disturbed = TRUE]

Init ==
    /\ history = <<>>
    /\ gen = GenInit
    /\ cons = <<>>
    /\ hashfn \in HashTables
    /\ call = NoCall

(***************************************************************************)
(* The enumerator alone: one generator object at a time, started,          *)
(* consumed and abandoned, up to EnumLimit salts.                          *)
(***************************************************************************)
InitEnum ==
    /\ history = <<>>
    /\ gen = GenInit
    /\ cons = <<>>
    /\ hashfn = [c \in HashClasses |-> max_digest]
    /\ call = NoCall

\* iter_bytes() / Hashcoin.salts(): a new generator object, not yet started
StartSalts ==
    /\ cons' = Append(cons, Consumer("salts", <<0, 1>>, <<>>))
    /\ UNCHANGED <<history, gen, hashfn, call>>

\* next() of the salts generator k, within lim values of the generator
NextSalt(k, lim) ==
    LET c == cons[k] IN
    /\ c.kind = "salts"
    /\ CanDraw(c.phase, c.idx, history, gen, lim)
    /\ LET d == reuser(c.phase, c.idx, history, gen)
           c1 == [c EXCEPT !.phase = d.phase, !.idx = d.idx,
                           !.k0 = IF c.phase = "created" THEN Len(history) ELSE @,
                           !.out = Append(@, d.salt),
                           !.trials = Append(@, d.salt)]
       IN /\ history' = d.history
          /\ gen' = d.gen
          /\ cons' = [j \in DOMAIN cons |-> IF j = k THEN c1 ELSE Disturb(cons[j])]
    /\ UNCHANGED <<hashfn, call>>

EnumStart == cons = <<>> /\ StartSalts

EnumNext == \E k \in DOMAIN cons : NextSalt(k, EnumLimit)

\* the caller drops the generator object; nothing is cleaned up
EnumAbandon ==
    /\ cons # <<>>
    /\ cons' = <<>>
    /\ UNCHANGED <<history, gen, hashfn, call>>

NextEnum == EnumStart \/ EnumNext \/ EnumAbandon

SpecEnum == InitEnum /\ [][NextEnum]_vars

(***************************************************************************)
(* The digest space alone: percentile_digest applied to the percentiles    *)
(* of PercentileInputs.                                                    *)
(***************************************************************************)
SmallDenominators == {1, 2, 3, 4, 5, 8, 16}

\* num / den for the small denominators from below -1 to above 1, and the
\* neighbours of 0 and 1 at half the resolution of the digest space (those
\* of 1 where the product num * Modulus stays a 32-bit integer)
PercentileInputs ==
    {q \in (-17..17) \X SmallDenominators : q[1] >= -q[2] - 1 /\ q[1] <= q[2] + 1}
    \cup {<<n, 2 * Modulus>> : n \in {-3, -2, -1, 1, 2, 3}}
    \cup IF Modulus <= 256
         THEN {<<2 * Modulus + n, 2 * Modulus>> : n \in {-3, -2, -1, 1, 2, 3}}
         ELSE {}

InitCeiling == InitEnum

PercentileDigest ==
    \E p \in PercentileInputs :
        LET r == percentile_digest(p) IN
        /\ call' = [NoCall EXCEPT !.op = "percentile_digest", !.percentile = p,
                                   !.err = r.err, !.digest = r.val]
        /\ UNCHANGED <<history, gen, cons, hashfn>>

NextCeiling == PercentileDigest

SpecCeiling == InitCeiling /\ [][NextCeiling]_vars

(***************************************************************************)
(* The search policies.  A token is <<data, salt>>.                        *)
(***************************************************************************)
Payloads == {<<>>, <<1>>}

\* 0, 1/4, 1/2 and 1, and two percentiles outside [0, 1]
PercentileSamples ==
    {<<0, 1>>, <<1, 4>>, <<1, 2>>, <<1, 1>>, <<-1, 2 * Modulus>>, <<3, 2>>}

\* Hashcoin.digest
digest(token) ==
    LET h == HashNew(token[1]) IN HashDigest(HashUpdate(h, token[2]))

\* Hashcoin.percentile
token_percentile(token) ==
    percentile(intify(digest(token)), intify(max_digest))

\* a trial that feeds the salt to the hash of the payload itself, without
\* a copy
trial_in_place(data_hash, salt) ==
    LET full_hash == HashUpdate(data_hash, salt)
    IN [digest |-> HashDigest(full_hash), data_hash |-> full_hash]

\* one trial of a search loop: the hash of the payload is copied, the copy
\* is fed the salt and gives the digest; data_hash is what the loop keeps
trial(data_hash, salt) ==
    LET full_hash == HashUpdate(HashCopy(data_hash), salt)
    IN [digest |-> HashDigest(full_hash), data_hash |-> data_hash]

\* in_percentile: `if full_hash.digest() <= max_digest`
in_percentile_accepts(dg, limit_digest) == bytes_le(dg, limit_digest)

\* refine comparing with <= instead of <
refine_accepts_equal(dg, min_digest) == bytes_le(dg, min_digest)

\* refine: `if digest < min_digest`
refine_accepts(dg, min_digest) == bytes_lt(dg, min_digest)

\* best comparing the wrong way round
best_accepts_greater(dg, min_digest) == bytes_lt(min_digest, dg)

\* best comparing with <= instead of <
best_accepts_equal(dg, min_digest) == bytes_le(dg, min_digest)

\* best: `if digest < min_digest`
best_accepts(dg, min_digest) == bytes_lt(dg, min_digest)

\* the first lines of in_percentile, run by the first next()
in_percentile_begin(c) ==
    LET r == percentile_digest(c.percentile)
    IN [c EXCEPT !.data_hash = HashNew(c.data), !.limit_digest = r.val,
                 !.err = r.err]

\* the first lines of refine, run by the first next()
refine_begin(c) ==
    [c EXCEPT !.data_hash = HashNew(c.data), !.limit_digest = max_digest]

\* the generator of the loop takes one salt: the reuser moves on
Drawn(c, d) ==
    [c EXCEPT !.phase = d.phase, !.idx = d.idx, !.trials = Append(@, d.salt)]

\* the loop of in_percentile from where it is suspended to its next yield,
\* within lim values of the underlying generator
RECURSIVE in_percentile_loop(_, _, _, _)
in_percentile_loop(c, hist, g, lim) ==
    IF ~CanDraw(c.phase, c.idx, hist, g, lim)
    THEN [found |-> FALSE, c |-> c, history |-> hist, gen |-> g]
    ELSE LET d == reuser(c.phase, c.idx, hist, g)
             t == trial(c.data_hash, d.salt)
             c1 == [Drawn(c, d) EXCEPT !.data_hash = t.data_hash,
                                   !.tested = Append(@, t.digest)]
         IN IF in_percentile_accepts(t.digest, c.limit_digest)
            THEN [found |-> TRUE,
                  c |-> [c1 EXCEPT !.out = Append(@, <<c.data, d.salt>>)],
                  history |-> d.history, gen |-> d.gen]
            ELSE in_percentile_loop(c1, d.history, d.gen, lim)

\* the loop of refine from where it is suspended to its next yield
RECURSIVE refine_loop(_, _, _, _)
refine_loop(c, hist, g, lim) ==
    IF ~CanDraw(c.phase, c.idx, hist, g, lim)
    THEN [found |-> FALSE, c |-> c, history |-> hist, gen |-> g]
    ELSE LET d == reuser(c.phase, c.idx, hist, g)
             t == trial(c.data_hash, d.salt)
             c1 == [Drawn(c, d) EXCEPT !.data_hash = t.data_hash,
                                   !.tested = Append(@, t.digest)]
         IN IF refine_accepts(t.digest, c.limit_digest)
            THEN [found |-> TRUE,
                  c |-> [c1 EXCEPT !.limit_digest = t.digest,
                                   !.out = Append(@, <<c.data, d.salt>>)],
                  history |-> d.history, gen |-> d.gen]
            ELSE refine_loop(c1, d.history, d.gen, lim)

\* best taking a salt before it looks at how many are left
RECURSIVE best_loop_takes_first(_, _, _, _)
best_loop_takes_first(c, hist, g, left) ==
    LET d == reuser(c.phase, c.idx, hist, g)
        t == trial(c.data_hash, d.salt)
        c1 == [Drawn(c, d) EXCEPT !.data_hash = t.data_hash,
                                   !.tested = Append(@, t.digest)]
        c2 == IF best_accepts(t.digest, c.limit_digest)
              THEN [c1 EXCEPT !.limit_digest = t.digest, !.out = d.salt]
              ELSE c1
    IN IF left <= 1
       THEN [c |-> c2, history |-> d.history, gen |-> d.gen]
       ELSE best_loop_takes_first(c2, d.history, d.gen, left - 1)

\* the loop of best over islice(cls.salts(), n): left salts are still to
\* take; min_salt is kept in out, min_digest in limit_digest
RECURSIVE best_loop(_, _, _, _)
best_loop(c, hist, g, left) ==
    IF left = 0
    THEN [c |-> c, history |-> hist, gen |-> g]
    ELSE LET d == reuser(c.phase, c.idx, hist, g)
             t == trial(c.data_hash, d.salt)
             c1 == [Drawn(c, d) EXCEPT !.data_hash = t.data_hash,
                                   !.tested = Append(@, t.digest)]
         IN IF best_accepts(t.digest, c.limit_digest)
            THEN best_loop([c1 EXCEPT !.limit_digest = t.digest, !.out = d.salt],
                           d.history, d.gen, left - 1)
            ELSE best_loop(c1, d.history, d.gen, left - 1)

\* next() of another generator object of iter_bytes() that has replayed
\* the history: it takes the next value of the underlying generator and
\* records it
OtherNext ==
    /\ Produced(gen) < MaxIndex
    /\ LET d == reuser("gen", 0, history, gen)
       IN /\ history' = d.history
          /\ gen' = d.gen
    /\ cons' = [j \in DOMAIN cons |-> Disturb(cons[j])]
    /\ UNCHANGED <<hashfn, call>>

\* Hashcoin.in_percentile(percentile, data): a new generator object; its
\* body has not run
InPercentile ==
    /\ cons = <<>>
    /\ \E p \in PercentileSamples, data \in Payloads :
           cons' = Append(cons, Consumer("in_percentile", p, data))
    /\ UNCHANGED <<history, gen, hashfn, call>>

\* next() of an in_percentile generator: the first one runs the lines
\* before the loop and ends the generator if percentile_digest raises
NextOfInPercentile ==
    \E k \in DOMAIN cons :
        LET c == cons[k]
            c0 == IF c.phase = "created"
                  THEN [in_percentile_begin(c) EXCEPT !.k0 = Len(history)]
                  ELSE c
        IN /\ c.kind = "in_percentile"
           /\ c.phase # "failed"
           /\ IF c0.err # NoError
              THEN /\ cons' = [cons EXCEPT ![k] = [c0 EXCEPT !.phase = "failed"]]
                   /\ UNCHANGED <<history, gen>>
              ELSE LET r == in_percentile_loop(c0, history, gen, MaxIndex)
                   IN /\ r.found
                      /\ history' = r.history
                      /\ gen' = r.gen
                      /\ cons' = [j \in DOMAIN cons |->
                                     IF j = k THEN r.c ELSE Disturb(cons[j])]
           /\ UNCHANGED <<hashfn, call>>

\* Hashcoin.refine(data): a new generator object
Refine ==
    /\ cons = <<>>
    /\ \E data \in Payloads :
           cons' = Append(cons, Consumer("refine", <<0, 1>>, data))
    /\ UNCHANGED <<history, gen, hashfn, call>>

\* next() of a refine generator
NextOfRefine ==
    \E k \in DOMAIN cons :
        LET c == cons[k]
            c0 == IF c.phase = "created"
                  THEN [refine_begin(c) EXCEPT !.k0 = Len(history)]
                  ELSE c
            r == refine_loop(c0, history, gen, MaxIndex)
        IN /\ c.kind = "refine"
           /\ r.found
           /\ history' = r.history
           /\ gen' = r.gen
           /\ cons' = [j \in DOMAIN cons |->
                          IF j = k THEN r.c ELSE Disturb(cons[j])]
           /\ UNCHANGED <<hashfn, call>>

(***************************************************************************)
(* The search generators: one in_percentile or refine generator object,    *)
(* consumed while other enumerations advance the shared generator.         *)
(***************************************************************************)
Next ==
    \/ OtherNext
    \/ InPercentile
    \/ NextOfInPercentile
    \/ Refine
    \/ NextOfRefine

Spec == Init /\ [][Next]_vars

(***************************************************************************)
(* The calls that return a token: new and best, after any number of salts  *)
(* drawn before them.                                                      *)
(***************************************************************************)
\* Hashcoin.new(percentile, data): next() of a new in_percentile generator
New ==
    \E p \in PercentileSamples, data \in Payloads :
        LET c0 == in_percentile_begin(Consumer("in_percentile", p, data))
        IN IF c0.err # NoError
           THEN /\ call' = [NoCall EXCEPT !.op = "new", !.percentile = p,
                                          !.data = data, !.err = c0.err]
                /\ UNCHANGED <<history, gen, cons, hashfn>>
           ELSE LET r == in_percentile_loop(c0, history, gen, MaxIndex)
                IN /\ r.found
                   /\ call' = [NoCall EXCEPT !.op = "new", !.percentile = p,
                                              !.data = data,
                                              !.salt = r.c.out[1][2],
                                              !.trials = r.c.trials,
                                              !.tested = r.c.tested]
                   /\ history' = r.history
                   /\ gen' = r.gen
                   /\ cons' = [j \in DOMAIN cons |-> Disturb(cons[j])]
                   /\ UNCHANGED hashfn

\* Hashcoin.best(n, data)
Best ==
    \E n \in 0..MaxIndex, data \in Payloads :
        LET c0 == [Consumer("best", <<0, 1>>, data) EXCEPT
                       !.data_hash = HashNew(data),
                       !.limit_digest = max_digest]
            r == best_loop(c0, history, gen, n)
        IN /\ call' = [NoCall EXCEPT !.op = "best", !.n = n, !.data = data,
                                      !.salt = r.c.out,
                                      !.digest = r.c.limit_digest,
                                      !.trials = r.c.trials,
                                      !.tested = r.c.tested]
           /\ history' = r.history
           /\ gen' = r.gen
           /\ cons' = [j \in DOMAIN cons |->
                          IF n = 0 THEN cons[j] ELSE Disturb(cons[j])]
           /\ UNCHANGED hashfn

NextCalls == OtherNext \/ New \/ Best

SpecCalls == Init /\ [][NextCalls]_vars

(***************************************************************************)
(* The shared enumerator: up to MaxConsumers generator objects of          *)
(* Hashcoin.salts(), their next() calls interleaved in any order.          *)
(***************************************************************************)
\* Hashcoin.salts(): a new generator object
Salts == Len(cons) < MaxConsumers /\ StartSalts

NextOfSalts == \E k \in DOMAIN cons : NextSalt(k, MaxIndex)

NextShare == Salts \/ NextOfSalts

SpecShare == InitEnum /\ [][NextShare]_vars

(***************************************************************************)
(* The canonical order of salts: shorter before longer, and within one     *)
(* length as unsigned big-endian integers.                                 *)
(***************************************************************************)
IsBytes(b) == \A k \in DOMAIN b : b[k] \in 0..255

\* b is the string right after a in the canonical order
CanonicalNext(a, b) ==
    \/ /\ Len(b) = Len(a)
       /\ intify(b) = intify(a) + 1
    \/ /\ Len(b) = Len(a) + 1
       /\ \A k \in DOMAIN a : a[k] = 255
       /\ \A k \in DOMAIN b : b[k] = 0

\* s is the canonical enumeration from its first element
CanonicalPrefix(s) ==
    /\ \A j \in DOMAIN s : IsBytes(s[j])
    /\ s # <<>> => s[1] = <<>>
    /\ \A j \in 1..(Len(s) - 1) : CanonicalNext(s[j], s[j + 1])

\* a strictly before b in the canonical order
CanonicalLess(a, b) ==
    \/ Len(a) < Len(b)
    \/ Len(a) = Len(b) /\ intify(a) < intify(b)

\* a generator object that started on the empty history with no other
\* enumeration advancing since
FreshAlone(c) == c.phase # "created" /\ c.k0 = 0 /\ ~c.disturbed

(***************************************************************************)
(* C1: a freshly started salt enumeration that is the only consumer yields *)
(* the canonical order from its first element: the empty string first,     *)
(* each salt the canonical successor of the one before, hence sorted by    *)
(* (length, value) and pairwise distinct, the strings of one byte at the   *)
(* positions 1..256 and every one of them there.                           *)
(***************************************************************************)
C1_FreshEnumerationCanonical ==
    \A k \in DOMAIN cons :
        FreshAlone(cons[k]) =>
            LET out == cons[k].out IN
            /\ CanonicalPrefix(out)
            /\ \A j \in 1..(Len(out) - 1) : CanonicalLess(out[j], out[j + 1])
            /\ Cardinality({out[j] : j \in DOMAIN out}) = Len(out)
            /\ \A j \in DOMAIN out : j \in 2..257 => out[j] = <<j - 2>>
            /\ Len(out) >= 257 =>
                   {out[j] : j \in 2..257} = {<<b>> : b \in 0..255}

\* the enumeration has passed every string of one byte and reached <<0, 0>>
C1_Witness ==
    \E k \in DOMAIN cons :
        /\ FreshAlone(cons[k])
        /\ Len(cons[k].out) = 258
        /\ cons[k].out[257] = <<255>>
        /\ cons[k].out[258] = <<0, 0>>

(***************************************************************************)
(* C2: any two enumerations yield identical sequences, however their       *)
(* next() calls are interleaved: two generator objects of salts() agree at *)
(* every position both have reached.                                       *)
(***************************************************************************)
C2_EnumerationsAgree ==
    \A j, k \in DOMAIN cons :
        \A i \in DOMAIN cons[j].out \cap DOMAIN cons[k].out :
            cons[j].out[i] = cons[k].out[i]

(***************************************************************************)
(* C3: for a percentile in [0, 1], in_percentile consumed while no other   *)
(* enumeration advances draws the salts in canonical order from the first  *)
(* and has yielded exactly the tokens of the drawn salts whose digest      *)
(* value is <= digest_ceiling(p), in that order.                           *)
(***************************************************************************)
ValidPercentile(p) == p[1] >= 0 /\ p[1] <= p[2]

\* digest_ceiling of the specification: floor(p * (max + 1)) as a digest
\* value, max for the percentile 1
DigestCeiling(p) ==
    IF p[1] = p[2] THEN Modulus - 1 ELSE (p[1] * Modulus) \div p[2]

Qualifies(data, salt, p) == intify(digest(<<data, salt>>)) <= DigestCeiling(p)

QualifyingTokens(data, salts, p) ==
    LET Test(salt) == Qualifies(data, salt, p)
        hits == SelectSeq(salts, Test)
    IN [i \in DOMAIN hits |-> <<data, hits[i]>>]

C3_ThresholdSearchExact ==
    \A k \in DOMAIN cons :
        LET c == cons[k] IN
        (/\ c.kind = "in_percentile"
         /\ c.phase # "created"
         /\ ~c.disturbed
         /\ ValidPercentile(c.percentile)) =>
            /\ c.err = NoError
            /\ CanonicalPrefix(c.trials)
            /\ c.out = QualifyingTokens(c.data, c.trials, c.percentile)
            /\ c.out # <<>>
            /\ c.out[Len(c.out)][2] = c.trials[Len(c.trials)]

(***************************************************************************)
(* C4: for every percentile p in [0, 1], new(p, payload) returns a token   *)
(* whose percentile, recomputed from (payload, salt), is <= p.             *)
(***************************************************************************)
C4_MinedWithinPercentile ==
    (call.op = "new" /\ ValidPercentile(call.percentile)) =>
        /\ call.err = NoError
        /\ RatLe(token_percentile(<<call.data, call.salt>>), call.percentile)

(***************************************************************************)
(* C5: within one refine generator every yielded token has a digest value  *)
(* strictly below that of every token yielded before it, whatever other    *)
(* enumerations ran in between.                                            *)
(***************************************************************************)
C5_RefineStrictlyDecreasing ==
    \A k \in DOMAIN cons :
        cons[k].kind = "refine" =>
            \A i, j \in DOMAIN cons[k].out :
                i < j => intify(digest(cons[k].out[j])) <
                             intify(digest(cons[k].out[i]))

\* three tokens yielded by one refine generator with other enumerations
\* advancing in between
C5_Witness ==
    \E k \in DOMAIN cons :
        /\ cons[k].kind = "refine"
        /\ cons[k].disturbed
        /\ Len(cons[k].out) = 3

(***************************************************************************)
(* C6: for n >= 1, best(n, payload) evaluates exactly the first n salts of *)
(* the canonical order, whatever was drawn before, and returns a token     *)
(* whose salt is one of them and whose digest value is <= that of each.    *)
(***************************************************************************)
C6_BestIsMinimumOfFirstN ==
    (call.op = "best" /\ call.n >= 1) =>
        /\ Len(call.trials) = call.n
        /\ CanonicalPrefix(call.trials)
        /\ \E j \in DOMAIN call.trials : call.trials[j] = call.salt
        /\ \A j \in DOMAIN call.trials :
               intify(digest(<<call.data, call.salt>>)) <=
                   intify(digest(<<call.data, call.trials[j]>>))

\* best of the first two salts after four were drawn, the second the lower
C6_Witness ==
    /\ call.op = "best"
    /\ call.n = 2
    /\ Len(history) = 4
    /\ call.salt = <<0>>
    /\ bytes_lt(digest(<<call.data, <<0>>>>), digest(<<call.data, <<>>>>))

(***************************************************************************)
(* C7: percentile_digest(0) is the all-zero digest and percentile_digest(1)*)
(* is max_digest, so that every digest qualifies.                          *)
(***************************************************************************)
C7_CeilingEdges ==
    call.op = "percentile_digest" =>
        /\ call.percentile[1] = 0 =>
               /\ call.err = NoError
               /\ call.digest = [k \in 1..DigestSize |-> 0]
        /\ call.percentile[1] = call.percentile[2] =>
               /\ call.err = NoError
               /\ call.digest = max_digest

(***************************************************************************)
(* C8: percentile_digest of a percentile below 0 or above 1 raises; it     *)
(* never returns a ceiling.                                                *)
(***************************************************************************)
OutOfRange(p) == p[1] < 0 \/ p[1] > p[2]

C8_OutOfRangeRaises ==
    (call.op = "percentile_digest" /\ OutOfRange(call.percentile)) =>
        call.err # NoError

(***************************************************************************)
(* C9: for 0 <= p < 1, percentile_digest(p) returns floor(p * (max + 1)),  *)
(* every digest <= it has percentile <= p, and the next digest value, when *)
(* there is one, has percentile > p.  The percentile of a digest is the    *)
(* exact quotient value / (max + 1).                                       *)
(***************************************************************************)
AllDigests == [1..DigestSize -> 0..255]

MinPositions(data, salts) ==
    {j \in DOMAIN salts :
        \A i \in DOMAIN salts :
            intify(digest(<<data, salts[j]>>)) <= intify(digest(<<data, salts[i]>>))}

C10_BestTieEarliest ==
    (call.op = "best" /\ call.n >= 1) =>
        LET ties == MinPositions(call.data, call.trials)
        IN \E j \in ties :
               /\ call.salt = call.trials[j]
               /\ \A i \in ties : j <= i

\* the smallest digest, below max_digest, is shared by two of the salts and
\* the first of them is not the first salt
C10_Witness ==
    /\ call.op = "best"
    /\ call.n >= 3
    /\ Cardinality(MinPositions(call.data, call.trials)) >= 2
    /\ 1 \notin MinPositions(call.data, call.trials)
    /\ call.digest # max_digest

(***************************************************************************)
(* C11: for every percentile p in [0, 1], 1 included, the percentile of    *)
(* percentile_digest(p) differs from p by at most 1 / (max + 1).           *)
(***************************************************************************)
C11_CeilingRoundTrip ==
    (call.op = "percentile_digest" /\ ValidPercentile(call.percentile)) =>
        LET p == call.percentile
            back == percentile(intify(call.digest), intify(max_digest))
        IN /\ call.err = NoError
           \* |back - p| <= 1 / back[2], over the denominator back[2] * p[2]
           /\ back[1] * p[2] - p[1] * back[2] <= p[2]
           /\ p[1] * back[2] - back[1] * p[2] <= p[2]

(***************************************************************************)
(* C12: a call best(0, payload) returns the token (payload, empty salt),   *)
(* draws no salt and compares no digest, and leaves the history and the    *)
(* underlying generator of the shared enumerator as they were.             *)
(***************************************************************************)
C12_BestZeroLeavesEnumerator ==
    [][(Best /\ call'.op = "best" /\ call'.n = 0) =>
           /\ call'.salt = <<>>
           /\ call'.trials = <<>>
           /\ call'.digest = max_digest
           /\ history' = history
           /\ gen' = gen
           /\ cons' = cons]_vars

\* best(0, payload) has returned while the enumerator holds recorded salts
C12_Witness ==
    /\ call.op = "best"
    /\ call.n = 0
    /\ call.salt = <<>>
    /\ call.trials = <<>>
    /\ Len(history) >= 2
    /\ Produced(gen) = Len(history)

(***************************************************************************)
(* C13: a call in_percentile(p, data) with a percentile outside [0, 1] on  *)
(* which percentile_digest raises fails at that call: no generator object  *)
(* is returned that would raise only when its first token is requested.    *)
(***************************************************************************)
C13_ErrorAtTheCall ==
    \A k \in DOMAIN cons :
        (/\ cons[k].kind = "in_percentile"
         /\ OutOfRange(cons[k].percentile)
         /\ percentile_digest(cons[k].percentile).err # NoError)
            => cons[k].err # NoError

\* the first n values of a generator of the undecorated iter_bytes that is
\* in state g: no history, no sharing
RECURSIVE FreshFrom(_, _)
FreshFrom(g, n) ==
    IF n = 0 THEN <<>>
    ELSE LET x == iter_bytes(g) IN <<x.value>> \o FreshFrom(x.gen, n - 1)

(***************************************************************************)
(* C14: an enumeration started when k salts were already recorded, k >= 0, *)
(* and consumed while no other enumeration advances, yields what a fresh   *)
(* generator without memo yields from its start: first the k recorded      *)
(* salts in their order, then the salts that follow them.                  *)
(***************************************************************************)
C14_ReplayThenContinue ==
    \A k \in DOMAIN cons :
        (cons[k].phase # "created" /\ ~cons[k].disturbed) =>
            LET out == cons[k].out IN
            /\ out = FreshFrom(GenInit, Len(out))
            /\ \A j \in DOMAIN out : j <= cons[k].k0 => out[j] = history[j]
            /\ Len(out) >= cons[k].k0 => history = out

\* an enumeration started on two or more recorded salts has replayed them
\* and gone on to draw from the underlying generator
C14_Witness ==
    \E k \in DOMAIN cons :
        /\ cons[k].phase = "gen"
        /\ ~cons[k].disturbed
        /\ cons[k].k0 >= 2
        /\ Len(cons[k].out) > cons[k].k0

(***************************************************************************)
(* The comparisons of the search loops on their own: two digests of one    *)
(* width, with bytes at the ends and in the middle of 0..255, are put      *)
(* through the test of each loop.                                          *)
(***************************************************************************)
ByteSamples == {0, 1, 128, 255}

\* the two digests to compare
InitCompare ==
    /\ history = <<>>
    /\ gen = GenInit
    /\ cons = <<>>
    /\ hashfn = [c \in HashClasses |-> max_digest]
    /\ \E w \in 1..CompareWidth :
           \E a, b \in [1..w -> ByteSamples] :
               call = [NoCall EXCEPT !.op = "digests", !.digest = a, !.other = b]

\* `digest <= max_digest` of in_percentile, `digest < min_digest` of refine
\* and of best, on the two digests
CompareDigests ==
    /\ call.op = "digests"
    /\ call' = [call EXCEPT !.op = "compare",
                            !.accepts = <<in_percentile_accepts(call.digest, call.other),
                                          refine_accepts(call.digest, call.other),
                                          best_accepts(call.digest, call.other)>>]
    /\ UNCHANGED <<history, gen, cons, hashfn>>

NextCompare == CompareDigests

SpecCompare == InitCompare /\ [][NextCompare]_vars

(***************************************************************************)
(* C15: on two digests of the same width, the comparison of bytes that the *)
(* loops use agrees with the comparison of the digests read as unsigned    *)
(* big-endian integers: <= in in_percentile, < in refine and in best.      *)
(***************************************************************************)
C15_BytewiseIsNumeric ==
    call.op = "compare" =>
        LET a == intify(call.digest)
            b == intify(call.other)
        IN /\ call.accepts[1] <=> a <= b
           /\ call.accepts[2] <=> a < b
           /\ call.accepts[3] <=> a < b

\* two digests of two bytes whose order is decided by the first byte
\* against the second: the first is below as an integer
C15_Witness ==
    /\ call.op = "compare"
    /\ Len(call.digest) = 2
    /\ call.digest[1] < call.other[1]
    /\ call.digest[2] > call.other[2]
    /\ call.accepts = <<TRUE, TRUE, TRUE>>

\* the value of the digest of the j-th salt that a generator of data drew
TrialValue(data, trials, j) == intify(digest(<<data, trials[j]>>))

\* the ceiling of the specification after j salts: the value of max_digest
\* and of the digests of the salts so far, whichever is smallest
CeilingAfter(data, trials, j) ==
    LET vals == {intify(max_digest)} \cup {TrialValue(data, trials, i) : i \in 1..j}
    IN CHOOSE v \in vals : \A u \in vals : v <= u

\* the tokens of the salts whose digest is strictly below the ceiling
BelowCeilingTokens(data, trials) ==
    LET Test(j) == TrialValue(data, trials, j) < CeilingAfter(data, trials, j - 1)
        hits == SelectSeq([j \in DOMAIN trials |-> j], Test)
    IN [i \in DOMAIN hits |-> <<data, trials[hits[i]]>>]

(***************************************************************************)
(* C16: refine consumed while no other enumeration advances has emitted    *)
(* the token of a salt exactly when the digest of the salt is strictly     *)
(* below the ceiling, which is max_digest at first and then the smallest   *)
(* digest of the salts drawn so far; a digest equal to the ceiling,        *)
(* max_digest included, emits nothing and leaves the ceiling.              *)
(***************************************************************************)
C16_RefineEmitsBelowCeiling ==
    \A k \in DOMAIN cons :
        LET c == cons[k] IN
        (c.kind = "refine" /\ c.phase # "created" /\ ~c.disturbed) =>
            /\ CanonicalPrefix(c.trials)
            /\ c.out = BelowCeilingTokens(c.data, c.trials)
            /\ Len(c.limit_digest) = DigestSize
            /\ intify(c.limit_digest) = CeilingAfter(c.data, c.trials, Len(c.trials))

\* a refine generator that passed over a salt whose digest equalled a
\* ceiling below max_digest and emitted a lower one afterwards
C16_Witness ==
    \E k \in DOMAIN cons :
        LET c == cons[k] IN
        /\ c.kind = "refine"
        /\ ~c.disturbed
        /\ Len(c.out) >= 2
        /\ \E j \in DOMAIN c.trials :
               /\ TrialValue(c.data, c.trials, j) = CeilingAfter(c.data, c.trials, j - 1)
               /\ CeilingAfter(c.data, c.trials, j - 1) < intify(max_digest)
               /\ \A i \in DOMAIN c.out : c.out[i][2] # c.trials[j]

(***************************************************************************)
(* C17: however the next() calls of the live generator objects are         *)
(* interleaved, the salts one of them has yielded are strictly increasing  *)
(* in the canonical order: none twice, none out of order.                  *)
(***************************************************************************)
C17_ConsumerStrictlyIncreasing ==
    \A k \in DOMAIN cons :
        LET out == cons[k].out IN
        /\ \A i, j \in DOMAIN out : i < j => CanonicalLess(out[i], out[j])
        /\ Cardinality({out[j] : j \in DOMAIN out}) = Len(out)

\* two generator objects past their replay, each having missed a salt the
\* other pulled
C17_Witness ==
    \E j, k \in DOMAIN cons :
        /\ j # k
        /\ cons[j].phase = "gen" /\ cons[k].phase = "gen"
        /\ cons[j].disturbed /\ cons[k].disturbed
        /\ Len(cons[j].out) >= 2 /\ Len(cons[k].out) >= 2
        /\ \E s \in {cons[j].out[i] : i \in DOMAIN cons[j].out} :
               \A i \in DOMAIN cons[k].out : cons[k].out[i] # s
        /\ \E s \in {cons[k].out[i] : i \in DOMAIN cons[k].out} :
               \A i \in DOMAIN cons[j].out : cons[j].out[i] # s

(***************************************************************************)
(* C18: after any starts and next() calls of any generator objects, the    *)
(* history is the canonical enumeration from its first salt, without gap   *)
(* or duplicate, and the underlying generator has produced exactly as many *)
(* salts as the history holds.                                             *)
(***************************************************************************)
C18_HistoryIsCanonicalPrefix ==
    /\ CanonicalPrefix(history)
    /\ history = FreshFrom(GenInit, Len(history))
    /\ Cardinality({history[j] : j \in DOMAIN history}) = Len(history)
    /\ Produced(gen) = Len(history)
    /\ FreshFrom(GenInit, Len(history) + 1)[Len(history) + 1] = iter_bytes(gen).value

\* the history filled to the bound by the pulls of two generator objects
C18_Witness ==
    /\ Len(history) = MaxIndex
    /\ Len(cons) >= 2
    /\ \A k \in DOMAIN cons : cons[k].phase = "gen" /\ cons[k].out # <<>>
    /\ \E k \in DOMAIN cons : cons[k].out # history

(***************************************************************************)
(* The three search loops side by side: one in_percentile or refine        *)
(* generator object at a time, and calls of best, on one shared            *)
(* enumerator.                                                             *)
(***************************************************************************)
\* hashes that give the three classes of contents three different digests,
\* rising or falling from one class to the next
TrialTables ==
    {t \in HashTables :
        \/ \A x, y \in HashClasses : x < y => intify(t[x]) < intify(t[y])
        \/ \A x, y \in HashClasses : x < y => intify(t[x]) > intify(t[y])}

InitTrials ==
    /\ history = <<>>
    /\ gen = GenInit
    /\ cons = <<>>
    /\ hashfn \in TrialTables
    /\ call = NoCall

NextTrials ==
    \/ InPercentile
    \/ NextOfInPercentile
    \/ Refine
    \/ NextOfRefine
    \/ Best

SpecTrials == InitTrials /\ [][NextTrials]_vars

\* the digests tested are those of the tokens (data, salt) of the salts drawn
TestedOwnDigests(data, trials, tested) ==
    /\ Len(tested) = Len(trials)
    /\ \A j \in DOMAIN trials :
           /\ tested[j] = HashDigest(HashNew(data) \o trials[j])
           /\ tested[j] = digest(<<data, trials[j]>>)

(***************************************************************************)
(* C19: no trial modifies the hash of the payload computed once per        *)
(* search: in in_percentile, refine and best the digest tested for a salt  *)
(* is the hash of the payload followed by that salt alone, whatever salts  *)
(* were tried before, and is the digest() of the token (payload, salt).    *)
(***************************************************************************)
C19_TrialsLeavePayloadHash ==
    /\ \A k \in DOMAIN cons :
           LET c == cons[k] IN
           (c.phase \notin {"created", "failed"}) =>
               /\ c.data_hash = HashNew(c.data)
               /\ TestedOwnDigests(c.data, c.trials, c.tested)
    /\ call.op = "best" => TestedOwnDigests(call.data, call.trials, call.tested)

\* searches that tried three salts or more, the last with a digest unlike
\* the one before: a generator object and a call of best
C19_Witness ==
    /\ \E k \in DOMAIN cons :
           /\ Len(cons[k].tested) >= 3
           /\ cons[k].tested[3] # cons[k].tested[2]
    /\ call.op = "best"
    /\ Len(call.tested) >= 3
    /\ call.tested[3] # call.tested[2]

====
